---- MODULE Spec2Model ----
(***************************************************************************)
(* The chronometer state engine of metrochrono.go: Chronometer (Start,     *)
(* Stop, Reset, GetElapsedTime) and ChronoManager (StartChronometer,       *)
(* SaveToFile, LoadFromFile, SaveToCSV), driven by the callbacks of main.  *)
(* Time is an integer clock `now` of milliseconds; a time.Duration is a    *)
(* difference of two clock readings.                                       *)
(***************************************************************************)
EXTENDS Integers, Sequences, FiniteSets, TLC

\* Bounds of the model.
Count == 2          \* chronometers of the bank (main builds 15)
MaxNow == 2         \* the clock runs 0..MaxNow
MaxRecords == 2     \* records of a save file that was not written by SaveToFile
MaxLoads == 1       \* such files restored in one run
NumThreads == 2     \* execution contexts calling StartChronometer concurrently
MaxCalls == 2       \* calls of the operations that take no lock, in one run

Indexes == 0 .. (Count - 1)        \* positions of cm.chronometers
Threads == 1 .. NumThreads

VARIABLES
    chronometers,   \* cm.chronometers: position -> Chronometer
    now,            \* the clock read by time.Now / time.Since
    files,          \* the file system: file name -> content
    last,           \* the last engine operation: what was called, what it read, its result
    loads,          \* how many files from elsewhere were restored
    saved,          \* what the bank showed when JSONFile was last written in full
    anchor,         \* per position, while running: when startTime was last set,
                    \* and whether the chronometer read a time >= 0 at that instant
    mutex,          \* cm.mutex: 0 when free, else the thread holding it
    pc,             \* thread -> its position in StartChronometer
    arg,            \* thread -> the id it passed to StartChronometer
    idx,            \* thread -> position of its stop loop
    calls,          \* how many operations that take no lock the threads called
    conv            \* the last text conversion: its input and its results

vars == <<chronometers, now, files, last, loads, saved, anchor, mutex, pc, arg, idx, calls,
          conv>>
threadVars == <<mutex, pc, arg, idx, calls>>

----------------------------------------------------------------------------
\* Text

Digit(n) == <<"0", "1", "2", "3", "4", "5", "6", "7", "8", "9">>[n + 1]

RECURSIVE Itoa(_)
\* fmt's %d of a non-negative int
Itoa(n) == IF n < 10 THEN <<Digit(n)>> ELSE Itoa(n \div 10) \o <<Digit(n % 10)>>

\* fmt.Sprintf("Timer %d", id)
TimerLabel(id) == <<"T", "i", "m", "e", "r", " ">> \o Itoa(id)

Quote == "\""
Backslash == "\\"

RECURSIVE EncodeString(_)
\* encoding/json writes a string: a quote and a backslash are escaped
EncodeString(s) ==
    IF s = <<>> THEN <<>>
    ELSE (IF Head(s) \in {Quote, Backslash} THEN <<Backslash, Head(s)>> ELSE <<Head(s)>>)
         \o EncodeString(Tail(s))

RECURSIVE ValidString(_)
\* encoding/json accepts the body of a string literal
ValidString(b) ==
    IF b = <<>> THEN TRUE
    ELSE IF Head(b) = Backslash
         THEN Len(b) >= 2 /\ b[2] \in {Quote, Backslash} /\ ValidString(SubSeq(b, 3, Len(b)))
         ELSE Head(b) # Quote /\ ValidString(Tail(b))

RECURSIVE DecodeString(_)
\* encoding/json reads the body of a valid string literal
DecodeString(b) ==
    IF b = <<>> THEN <<>>
    ELSE IF Head(b) = Backslash
         THEN <<b[2]>> \o DecodeString(SubSeq(b, 3, Len(b)))
         ELSE <<Head(b)>> \o DecodeString(Tail(b))

----------------------------------------------------------------------------
\* Chronometer

NewChronometer(id) ==
    [startTime |-> 0, elapsedTime |-> 0, isRunning |-> FALSE,
     displayLabel |-> TimerLabel(id), id |-> id]

\* Start that counts from the instant of the call whatever time was banked
StartFromZero(c, t) ==
    IF ~c.isRunning
    THEN [c EXCEPT !.startTime = t, !.isRunning = TRUE]
    ELSE c

\* Start without its test of isRunning
StartUnguarded(c, t) == [c EXCEPT !.startTime = t - c.elapsedTime, !.isRunning = TRUE]

Start(c, t) ==
    IF ~c.isRunning
    THEN [c EXCEPT !.startTime = t - c.elapsedTime, !.isRunning = TRUE]
    ELSE c

\* Stop that clears the flag and forgets to bank the time
StopWithoutBanking(c, t) == [c EXCEPT !.isRunning = FALSE]

Stop(c, t) ==
    IF c.isRunning
    THEN [c EXCEPT !.elapsedTime = t - c.startTime, !.isRunning = FALSE]
    ELSE c

\* Reset that zeroes the banked time and leaves startTime as it is
ResetWithoutRestart(c, t) == [c EXCEPT !.elapsedTime = 0]

Reset(c, t) ==
    IF c.isRunning
    THEN [c EXCEPT !.elapsedTime = 0, !.startTime = t]
    ELSE [c EXCEPT !.elapsedTime = 0]

GetElapsedTime(c, t) == IF c.isRunning THEN t - c.startTime ELSE c.elapsedTime

----------------------------------------------------------------------------
\* ChronoManager

NewChronoManager == [i \in Indexes |-> NewChronometer(i + 1)]

\* the first loop of StartChronometer
StopRunning(cs, t) ==
    [i \in DOMAIN cs |-> IF cs[i].isRunning THEN Stop(cs[i], t) ELSE cs[i]]

\* StartChronometer that starts the selected chronometer and stops no other
StartWithoutStopping(cs, id, t) ==
    IF id >= 0 /\ id < Count THEN [cs EXCEPT ![id] = Start(cs[id], t)] ELSE cs

\* StartChronometer that checks the id before anything else
StartCheckingFirst(cs, id, t) ==
    IF id >= 0 /\ id < Count
    THEN [i \in DOMAIN cs |-> IF i = id THEN Start(Stop(cs[i], t), t) ELSE Stop(cs[i], t)]
    ELSE cs

\* the whole of StartChronometer, as it runs under cm.mutex
StartChronometerResult(cs, id, t) ==
    LET stopped == StopRunning(cs, t)
    IN  IF id >= 0 /\ id < Count
        THEN [stopped EXCEPT ![id] = Start(stopped[id], t)]
        ELSE stopped

----------------------------------------------------------------------------
\* Durations and their text form. The unit of the clock, and of a duration, is
\* the millisecond: the text form shows nothing finer.

Millisecond == 1
Second == 1000 * Millisecond
Minute == 60 * Second
Hour == 60 * Minute

\* Go's integer division and remainder truncate toward zero
Quo(a, b) == IF a >= 0 THEN a \div b ELSE -((-a) \div b)
Rem(a, b) == a - b * Quo(a, b)

RECURSIVE PadLeft(_, _)
PadLeft(s, w) == IF Len(s) >= w THEN s ELSE PadLeft(<<"0">> \o s, w)

\* fmt's %0wd
FmtInt(n, w) == IF n < 0 THEN <<"-">> \o PadLeft(Itoa(-n), w - 1) ELSE PadLeft(Itoa(n), w)

\* formatDuration without the % 60 of the minutes
formatDurationTotalMinutes(d) ==
    LET hours == Quo(d, Hour)
        minutes == Quo(d, Minute)
        seconds == Rem(Quo(d, Second), 60)
        milliseconds == Rem(Quo(d, Millisecond), 1000)
    IN  FmtInt(hours, 2) \o <<":">> \o FmtInt(minutes, 2) \o <<":">>
        \o FmtInt(seconds, 2) \o <<".">> \o FmtInt(milliseconds, 3)

formatDuration(d) ==
    LET hours == Quo(d, Hour)
        minutes == Rem(Quo(d, Minute), 60)
        seconds == Rem(Quo(d, Second), 60)
        milliseconds == Rem(Quo(d, Millisecond), 1000)
    IN  FmtInt(hours, 2) \o <<":">> \o FmtInt(minutes, 2) \o <<":">>
        \o FmtInt(seconds, 2) \o <<".">> \o FmtInt(milliseconds, 3)

RECURSIVE Split(_, _)
\* strings.Split(s, sep) for a separator of one character
Split(s, sep) ==
    IF \A k \in DOMAIN s : s[k] # sep THEN <<s>>
    ELSE LET k == CHOOSE k \in DOMAIN s : s[k] = sep /\ \A j \in 1 .. (k - 1) : s[j] # sep
         IN  <<SubSeq(s, 1, k - 1)>> \o Split(SubSeq(s, k + 1, Len(s)), sep)

Digits == {"0", "1", "2", "3", "4", "5", "6", "7", "8", "9"}
DigitValue(ch) == CHOOSE n \in 0 .. 9 : Digit(n) = ch

RECURSIVE Natural(_)
\* the value of a sequence of digits
Natural(s) == IF s = <<>> THEN 0 ELSE 10 * Natural(SubSeq(s, 1, Len(s) - 1)) + DigitValue(s[Len(s)])

\* strconv.Atoi: an optional sign and at least one digit, in base 10
Atoi(s) ==
    LET body == IF s # <<>> /\ Head(s) \in {"+", "-"} THEN Tail(s) ELSE s
    IN  IF body = <<>> \/ \E k \in DOMAIN body : body[k] \notin Digits
        THEN [err |-> "syntax", n |-> 0]
        ELSE [err |-> "nil",
              n |-> IF Head(s) = "-" THEN -Natural(body) ELSE Natural(body)]

parseDuration(s) ==
    LET parts == Split(s, ":")
    IN  IF Len(parts) # 3 THEN [err |-> "invalid time format", d |-> 0]
        ELSE LET secParts == Split(parts[3], ".")
             IN  IF Len(secParts) # 2 THEN [err |-> "invalid seconds format", d |-> 0]
                 ELSE LET hours == Atoi(parts[1])
                          minutes == Atoi(parts[2])
                          seconds == Atoi(secParts[1])
                          millis == Atoi(secParts[2])
                      IN  IF hours.err # "nil" THEN [err |-> hours.err, d |-> 0]
                          ELSE IF minutes.err # "nil" THEN [err |-> minutes.err, d |-> 0]
                          ELSE IF seconds.err # "nil" THEN [err |-> seconds.err, d |-> 0]
                          ELSE IF millis.err # "nil" THEN [err |-> millis.err, d |-> 0]
                          ELSE [err |-> "nil",
                                d |-> hours.n * Hour + minutes.n * Minute
                                        + seconds.n * Second + millis.n * Millisecond]

----------------------------------------------------------------------------
\* Files

JSONFile == "timers.json"      \* written by SaveToFile
CSVFile == "timers.csv"        \* written by SaveToCSV
ForeignFile == "other.json"    \* a file this program never writes
OwnFiles == {JSONFile, CSVFile}
FileNames == OwnFiles \cup {ForeignFile}

Absent == [kind |-> "absent"]       \* no such file: ReadFile fails
Garbage == [kind |-> "garbage"]     \* text that is no JSON document (cut short, empty)

\* a SaveData built from the elapsedTime fields, not from GetElapsedTime
SnapshotOfFields(cs, t) ==
    [Chronometers |->
        [k \in 1 .. Count |->
            [ID |-> cs[k - 1].id,
             DisplayLabel |-> cs[k - 1].displayLabel,
             ElapsedTime |-> cs[k - 1].elapsedTime,
             IsRunning |-> cs[k - 1].isRunning]],
     SaveTime |-> t]

\* a SaveData that records when a running chronometer was started
SnapshotOfStartTimes(cs, t) ==
    [Chronometers |->
        [k \in 1 .. Count |->
            [ID |-> cs[k - 1].id,
             DisplayLabel |-> cs[k - 1].displayLabel,
             ElapsedTime |-> IF cs[k - 1].isRunning THEN cs[k - 1].startTime
                             ELSE cs[k - 1].elapsedTime,
             IsRunning |-> cs[k - 1].isRunning]],
     SaveTime |-> t]

\* the SaveData that SaveToFile builds
Snapshot(cs, t) ==
    [Chronometers |->
        [k \in 1 .. Count |->
            [ID |-> cs[k - 1].id,
             DisplayLabel |-> cs[k - 1].displayLabel,
             ElapsedTime |-> GetElapsedTime(cs[k - 1], t),
             IsRunning |-> cs[k - 1].isRunning]],
     SaveTime |-> t]

\* json.MarshalIndent of a SaveData: the text of a save file
Marshal(data) ==
    [kind |-> "json",
     chronometers |->
        [k \in DOMAIN data.Chronometers |->
            [id |-> data.Chronometers[k].ID,
             displayLabel |-> EncodeString(data.Chronometers[k].DisplayLabel),
             elapsedTime |-> data.Chronometers[k].ElapsedTime,
             isRunning |-> data.Chronometers[k].IsRunning]],
     saveTime |-> data.SaveTime]

\* json.Unmarshal reports an error
UnmarshalFails(text) ==
    \/ text.kind # "json"
    \/ \E k \in DOMAIN text.chronometers : ~ValidString(text.chronometers[k].displayLabel)

\* json.Unmarshal into a SaveData, for a text it accepts
Unmarshal(text) ==
    [Chronometers |->
        [k \in DOMAIN text.chronometers |->
            [ID |-> text.chronometers[k].id,
             DisplayLabel |-> DecodeString(text.chronometers[k].displayLabel),
             ElapsedTime |-> text.chronometers[k].elapsedTime,
             IsRunning |-> text.chronometers[k].isRunning]],
     SaveTime |-> text.saveTime]

\* the text a label input can hold
UserLabels == {<<"a", Quote>>}

\* Save files that SaveToFile did not write: up to MaxRecords records in any
\* order, with ids of the bank or not, repeated or not. A record carries either
\* an edited label and a positive duration, or the label of a new chronometer
\* and a negative duration; BadRecord's label is no JSON string.
ForeignIDs == 1 .. (Count + 1)
ForeignRecords ==
    {[id |-> i, displayLabel |-> EncodeString(CHOOSE l \in UserLabels : TRUE),
      elapsedTime |-> 2, isRunning |-> r] : i \in ForeignIDs, r \in BOOLEAN}
    \cup {[id |-> i, displayLabel |-> EncodeString(TimerLabel(i)),
           elapsedTime |-> -(MaxNow + 1), isRunning |-> r] : i \in ForeignIDs, r \in BOOLEAN}
BadRecord == [id |-> 1, displayLabel |-> <<Backslash>>, elapsedTime |-> 2, isRunning |-> TRUE]
ForeignSeqs == UNION {[1 .. n -> ForeignRecords \cup {BadRecord}] : n \in 0 .. MaxRecords}
ForeignFiles ==
    {[kind |-> "json", chronometers |-> rs, saveTime |-> 0] : rs \in ForeignSeqs}
    \cup {Garbage, Absent}

----------------------------------------------------------------------------
\* Restore

\* the position of the chronometer with this id, or -1: the inner loop of LoadFromFile
FindByID(cs, id) ==
    IF \E i \in DOMAIN cs : cs[i].id = id
    THEN CHOOSE i \in DOMAIN cs :
            cs[i].id = id /\ \A j \in DOMAIN cs : cs[j].id = id => i <= j
    ELSE -1

\* an iteration that clears the running flag before it applies the record
ApplyRecordRestarting(cs, cd, t) ==
    LET i == FindByID(cs, cd.ID)
    IN  IF i = -1 THEN cs
        ELSE LET c1 == [cs[i] EXCEPT !.displayLabel = cd.DisplayLabel,
                                     !.elapsedTime = cd.ElapsedTime,
                                     !.isRunning = FALSE]
             IN  [cs EXCEPT ![i] = IF cd.IsRunning THEN Start(c1, t) ELSE c1]

\* one iteration of the record loop of LoadFromFile
ApplyRecord(cs, cd, t) ==
    LET i == FindByID(cs, cd.ID)
    IN  IF i = -1 THEN cs
        ELSE LET c1 == [cs[i] EXCEPT !.displayLabel = cd.DisplayLabel,
                                     !.elapsedTime = cd.ElapsedTime]
             IN  [cs EXCEPT ![i] = IF cd.IsRunning THEN Start(c1, t) ELSE c1]

\* a record loop that gives the k-th record to the k-th chronometer
ApplyRecordsByPosition(cs, rs, t) ==
    [i \in DOMAIN cs |->
        IF i + 1 \in DOMAIN rs
        THEN LET c1 == [cs[i] EXCEPT !.displayLabel = rs[i + 1].DisplayLabel,
                                     !.elapsedTime = rs[i + 1].ElapsedTime]
             IN  IF rs[i + 1].IsRunning THEN Start(c1, t) ELSE c1
        ELSE cs[i]]

RECURSIVE ApplyRecords(_, _, _)
ApplyRecords(cs, rs, t) ==
    IF rs = <<>> THEN cs ELSE ApplyRecords(ApplyRecord(cs, Head(rs), t), Tail(rs), t)

\* a blanket stop that clears the flags and banks nothing
StopAllFlags(cs, t) == [i \in DOMAIN cs |-> [cs[i] EXCEPT !.isRunning = FALSE]]

\* the blanket stop of LoadFromFile
StopAll(cs, t) == [i \in DOMAIN cs |-> Stop(cs[i], t)]

\* the error LoadFromFile returns for this file content
LoadError(text) ==
    IF text = Absent THEN "io" ELSE IF UnmarshalFails(text) THEN "parse" ELSE "nil"

\* a LoadFromFile that stops the bank before it parses the file
LoadStoppingFirst(cs, text, t) ==
    IF LoadError(text) = "io" THEN cs
    ELSE IF LoadError(text) = "parse" THEN [i \in DOMAIN cs |-> Stop(cs[i], t)]
    ELSE ApplyRecords([i \in DOMAIN cs |-> Stop(cs[i], t)], Unmarshal(text).Chronometers, t)

\* a LoadFromFile without its blanket stop
LoadWithoutStopping(cs, text, t) ==
    IF LoadError(text) # "nil" THEN cs
    ELSE ApplyRecords(cs, Unmarshal(text).Chronometers, t)

\* the bank after LoadFromFile read this file content
LoadFromFileResult(cs, text, t) ==
    IF LoadError(text) # "nil" THEN cs
    ELSE ApplyRecords(StopAll(cs, t), Unmarshal(text).Chronometers, t)

\* the rows SaveToCSV writes
CSVRows(cs, t) ==
    <<<<"Timer ID", "Label", "Elapsed Time">>>>
    \o [k \in 1 .. Count |->
            <<Itoa(cs[k - 1].id), cs[k - 1].displayLabel,
              formatDuration(GetElapsedTime(cs[k - 1], t))>>]

----------------------------------------------------------------------------
\* The operations, as the callbacks of main run them on the event loop

NoText == [kind |-> "none"]
NoAnchor == [at |-> -1, ok |-> TRUE]
Running(cs) == {i \in DOMAIN cs : cs[i].isRunning}

\* History kept for the properties: the call, what it read, what it returned,
\* which positions were running when it was made; and the anchors.
Reanchor(old, pre, post, t) ==
    [i \in Indexes |->
        IF ~post[i].isRunning THEN NoAnchor
        ELSE IF pre[i].isRunning /\ post[i].startTime = pre[i].startTime THEN old[i]
        ELSE [at |-> t, ok |-> GetElapsedTime(post[i], t) >= 0]]

\* what the bank shows at t: per position the label, the flag, the elapsed time
Shown(cs, t) ==
    [at |-> t,
     bank |-> [i \in Indexes |->
                 [displayLabel |-> cs[i].displayLabel, isRunning |-> cs[i].isRunning,
                  elapsed |-> GetElapsedTime(cs[i], t)]]]

Called(op, id, file, err, text) ==
    last' = [op |-> op, id |-> id, file |-> file, err |-> err, text |-> text,
             ran |-> Running(chronometers)]

Done(op, id, file, err, text) ==
    /\ Called(op, id, file, err, text)
    /\ anchor' = Reanchor(anchor, chronometers, chronometers', now)

\* the chronometer it starts was stopped by its first loop: its startTime is
\* set anew even when it was running at the call
StartChronometer(id) ==
    /\ chronometers' = StartChronometerResult(chronometers, id, now)
    /\ Called("StartChronometer", id, "", "nil", NoText)
    /\ anchor' = Reanchor(anchor, StopRunning(chronometers, now), chronometers', now)
    /\ UNCHANGED <<now, files, loads, saved, threadVars, conv>>

\* a call of Chronometer.Start on one chronometer, outside StartChronometer
ChronometerStart(id) ==
    /\ chronometers' = [chronometers EXCEPT ![id] = Start(@, now)]
    /\ Done("Start", id, "", "nil", NoText)
    /\ UNCHANGED <<now, files, loads, saved, threadVars, conv>>

\* stopButton
StopButton(id) ==
    /\ chronometers' = [chronometers EXCEPT ![id] = Stop(@, now)]
    /\ Done("Stop", id, "", "nil", NoText)
    /\ UNCHANGED <<now, files, loads, saved, threadVars, conv>>

\* resetButton
ResetButton(id) ==
    /\ chronometers' = [chronometers EXCEPT ![id] = Reset(@, now)]
    /\ Done("Reset", id, "", "nil", NoText)
    /\ UNCHANGED <<now, files, loads, saved, threadVars, conv>>

\* labelInput's done func
SetLabel(id, text) ==
    /\ chronometers' = [chronometers EXCEPT ![id].displayLabel = text]
    /\ Done("SetLabel", id, "", "nil", NoText)
    /\ UNCHANGED <<now, files, loads, saved, threadVars, conv>>

\* what a write that reports an error leaves on disk: the old file, or a file
\* cut short
WriteOutcomes == {"ok", "unchanged", "cut"}
Written(old, text, outcome) ==
    IF outcome = "ok" THEN text ELSE IF outcome = "unchanged" THEN old ELSE Garbage

SaveToFile(filename, outcome) ==
    LET jsonData == Marshal(Snapshot(chronometers, now))
    IN  /\ files' = [files EXCEPT ![filename] = Written(@, jsonData, outcome)]
        /\ saved' = Written(saved, Shown(chronometers, now), outcome)
        /\ UNCHANGED <<chronometers, now, loads, threadVars, conv>>
        /\ Done("SaveToFile", -1, filename, IF outcome = "ok" THEN "nil" ELSE "io", NoText)

\* text: what ioutil.ReadFile finds on disk
LoadFromFile(filename, text) ==
    /\ chronometers' = LoadFromFileResult(chronometers, text, now)
    /\ Called("LoadFromFile", -1, filename, LoadError(text), text)
    /\ anchor' = Reanchor(anchor,
                          IF LoadError(text) = "nil" THEN StopAll(chronometers, now)
                          ELSE chronometers,
                          chronometers', now)
    /\ loads' = IF filename = ForeignFile THEN loads + 1 ELSE loads
    /\ UNCHANGED <<now, files, saved, threadVars, conv>>

\* a SaveToCSV that stops the timers it reads
SaveToCSVStopping(filename, outcome) ==
    /\ files' = [files EXCEPT ![filename] = Written(@, [kind |-> "csv"], outcome)]
    /\ chronometers' = [i \in Indexes |-> Stop(chronometers[i], now)]
    /\ UNCHANGED <<now, loads, saved, threadVars, conv>>
    /\ Done("SaveToCSV", -1, filename,
            IF outcome = "unchanged" THEN "io" ELSE "nil", NoText)

\* Of the table only the header and the number of rows are kept: nothing of
\* this program reads the table back. The error returned is that of os.Create:
\* the rows stay in the writer's buffer and the error of the deferred Flush is
\* dropped, so a table cut short is reported as written.
SaveToCSV(filename, outcome) ==
    LET rows == CSVRows(chronometers, now)
        table == [kind |-> "csv", header |-> Head(rows), rows |-> Len(rows) - 1]
    IN  /\ files' = [files EXCEPT ![filename] = Written(@, table, outcome)]
        /\ UNCHANGED <<chronometers, now, loads, saved, threadVars, conv>>
        /\ Done("SaveToCSV", -1, filename,
            IF outcome = "unchanged" THEN "io" ELSE "nil", NoText)

----------------------------------------------------------------------------
\* StartChronometer step by step, as several execution contexts run it

\* a context calls StartChronometer(id)
Call(t, id) ==
    /\ pc[t] = "idle"
    /\ pc' = [pc EXCEPT ![t] = "lock"]
    /\ arg' = [arg EXCEPT ![t] = id]
    /\ UNCHANGED <<chronometers, now, files, last, loads, saved, anchor, mutex, idx, calls, conv>>

\* a Lock that does not wait for the mutex
LockWithoutWaiting(t) ==
    /\ pc[t] = "lock"
    /\ mutex' = t
    /\ pc' = [pc EXCEPT ![t] = "loop"]
    /\ idx' = [idx EXCEPT ![t] = 0]
    /\ UNCHANGED <<chronometers, now, files, last, loads, saved, anchor, arg, calls, conv>>

\* cm.mutex.Lock()
Lock(t) ==
    /\ pc[t] = "lock"
    /\ mutex = 0
    /\ mutex' = t
    /\ pc' = [pc EXCEPT ![t] = "loop"]
    /\ idx' = [idx EXCEPT ![t] = 0]
    /\ UNCHANGED <<chronometers, now, files, last, loads, saved, anchor, arg, calls, conv>>

\* one iteration of the stop loop, or its end
StopLoop(t) ==
    /\ pc[t] = "loop"
    /\ IF idx[t] < Count
       THEN /\ chronometers' =
                  [chronometers EXCEPT ![idx[t]] = IF @.isRunning THEN Stop(@, now) ELSE @]
            /\ idx' = [idx EXCEPT ![t] = @ + 1]
            /\ pc' = pc
       ELSE /\ pc' = [pc EXCEPT ![t] = "start"]
            /\ UNCHANGED <<chronometers, idx>>
    /\ anchor' = Reanchor(anchor, chronometers, chronometers', now)
    /\ UNCHANGED <<now, files, last, loads, saved, mutex, arg, calls, conv>>

\* the guarded Start of the selected chronometer
StartSelected(t) ==
    /\ pc[t] = "start"
    /\ chronometers' =
          IF arg[t] >= 0 /\ arg[t] < Count
          THEN [chronometers EXCEPT ![arg[t]] = Start(@, now)]
          ELSE chronometers
    /\ pc' = [pc EXCEPT ![t] = "unlock"]
    /\ anchor' = Reanchor(anchor, chronometers, chronometers', now)
    /\ UNCHANGED <<now, files, last, loads, saved, mutex, arg, idx, calls, conv>>

\* the deferred cm.mutex.Unlock()
Unlock(t) ==
    /\ pc[t] = "unlock"
    /\ mutex' = 0
    /\ pc' = [pc EXCEPT ![t] = "idle"]
    /\ UNCHANGED <<chronometers, now, files, last, loads, saved, anchor, arg, idx, calls, conv>>

----------------------------------------------------------------------------
\* The other operations, as a context other than the event loop would run
\* them: none of them locks cm.mutex

\* the operations that address one chronometer, and those that take the bank
DirectOps == {"Stop", "Reset", "SetLabel"}
BankOps == {"SaveToFile", "LoadFromFile", "Refresh"}

\* a context calls one of them
Enter(t, op, id) ==
    /\ pc[t] = "idle"
    /\ calls < MaxCalls
    /\ calls' = calls + 1
    /\ pc' = [pc EXCEPT ![t] = op]
    /\ arg' = [arg EXCEPT ![t] = id]
    /\ UNCHANGED <<chronometers, now, files, last, loads, saved, anchor, mutex, idx, conv>>

\* Stop: the test of c.isRunning
StopTest(t) ==
    /\ pc[t] = "Stop"
    /\ pc' = [pc EXCEPT ![t] = IF chronometers[arg[t]].isRunning THEN "StopWrite" ELSE "idle"]
    /\ UNCHANGED <<chronometers, now, files, last, loads, saved, anchor, mutex, arg, idx, calls, conv>>

\* Stop: the two assignments
StopWrite(t) ==
    /\ pc[t] = "StopWrite"
    /\ chronometers' = [chronometers EXCEPT
                            ![arg[t]].elapsedTime = now - chronometers[arg[t]].startTime,
                            ![arg[t]].isRunning = FALSE]
    /\ pc' = [pc EXCEPT ![t] = "idle"]
    /\ anchor' = Reanchor(anchor, chronometers, chronometers', now)
    /\ UNCHANGED <<now, files, last, loads, saved, mutex, arg, idx, calls, conv>>

\* Reset: c.elapsedTime = 0 and the test of c.isRunning
ResetZero(t) ==
    /\ pc[t] = "Reset"
    /\ chronometers' = [chronometers EXCEPT ![arg[t]].elapsedTime = 0]
    /\ pc' = [pc EXCEPT ![t] = IF chronometers[arg[t]].isRunning THEN "ResetWrite" ELSE "idle"]
    /\ anchor' = Reanchor(anchor, chronometers, chronometers', now)
    /\ UNCHANGED <<now, files, last, loads, saved, mutex, arg, idx, calls, conv>>

\* Reset: c.startTime = time.Now()
ResetWrite(t) ==
    /\ pc[t] = "ResetWrite"
    /\ chronometers' = [chronometers EXCEPT ![arg[t]].startTime = now]
    /\ pc' = [pc EXCEPT ![t] = "idle"]
    /\ anchor' = Reanchor(anchor, chronometers, chronometers', now)
    /\ UNCHANGED <<now, files, last, loads, saved, mutex, arg, idx, calls, conv>>

\* the assignment of the label input's done func
LabelWrite(t, text) ==
    /\ pc[t] = "SetLabel"
    /\ chronometers' = [chronometers EXCEPT ![arg[t]].displayLabel = text]
    /\ pc' = [pc EXCEPT ![t] = "idle"]
    /\ UNCHANGED <<now, files, last, loads, saved, anchor, mutex, arg, idx, calls, conv>>

\* the body of SaveToFile
SaveBody(t, outcome) ==
    /\ pc[t] = "SaveToFile"
    /\ files' = [files EXCEPT ![JSONFile] =
                    Written(@, Marshal(Snapshot(chronometers, now)), outcome)]
    /\ pc' = [pc EXCEPT ![t] = "idle"]
    /\ UNCHANGED <<chronometers, now, last, loads, saved, anchor, mutex, arg, idx, calls, conv>>

\* the body of LoadFromFile
LoadBody(t) ==
    /\ pc[t] = "LoadFromFile"
    /\ chronometers' = LoadFromFileResult(chronometers, files[JSONFile], now)
    /\ pc' = [pc EXCEPT ![t] = "idle"]
    /\ anchor' = Reanchor(anchor,
                          IF LoadError(files[JSONFile]) = "nil" THEN StopAll(chronometers, now)
                          ELSE chronometers,
                          chronometers', now)
    /\ UNCHANGED <<now, files, last, loads, saved, mutex, arg, idx, calls, conv>>

\* the refresh func: it reads GetElapsedTime and isRunning of every chronometer
RefreshRead(t) ==
    /\ pc[t] = "Refresh"
    /\ pc' = [pc EXCEPT ![t] = "idle"]
    /\ UNCHANGED <<chronometers, now, files, last, loads, saved, anchor, mutex, arg, idx, calls, conv>>

\* the clock advances
Tick ==
    /\ now < MaxNow
    /\ now' = now + 1
    /\ UNCHANGED <<chronometers, files, last, loads, saved, anchor, threadVars, conv>>

StartIDs == (-1) .. Count

InitBank ==
    /\ chronometers = NewChronoManager
    /\ now = 0
    /\ files = [f \in OwnFiles |-> Absent]
    /\ last = [op |-> "New", id |-> -1, file |-> "", err |-> "nil", text |-> NoText,
               ran |-> {}]
    /\ anchor = [i \in Indexes |-> NoAnchor]
    /\ loads = 0
    /\ saved = Garbage
    /\ mutex = 0
    /\ pc = [t \in Threads |-> "idle"]
    /\ arg = [t \in Threads |-> 0]
    /\ idx = [t \in Threads |-> 0]
    /\ calls = 0

Init == InitBank /\ conv = [op |-> "none"]

\* The engine with the files it wrote itself.
Next ==
    \/ \E id \in StartIDs : StartChronometer(id)
    \/ \E id \in Indexes : StopButton(id)
    \/ \E id \in Indexes : ResetButton(id)
    \/ \E id \in Indexes, text \in UserLabels : SetLabel(id, text)
    \/ \E outcome \in WriteOutcomes : SaveToFile(JSONFile, outcome)
    \/ \E f \in OwnFiles : LoadFromFile(f, files[f])
    \/ \E outcome \in WriteOutcomes : SaveToCSV(CSVFile, outcome)
    \/ Tick

Spec == Init /\ [][Next]_vars

\* The engine restoring files that came from elsewhere.
NextRestore ==
    \/ \E id \in StartIDs : StartChronometer(id)
    \/ \E id \in Indexes : StopButton(id)
    \/ \E id \in Indexes : ResetButton(id)
    \/ \E id \in Indexes, text \in UserLabels : SetLabel(id, text)
    \/ loads < MaxLoads /\ \E text \in ForeignFiles : LoadFromFile(ForeignFile, text)
    \/ Tick

SpecRestore == Init /\ [][NextRestore]_vars

\* StartChronometer alone, called from several execution contexts.
NextStart ==
    \/ \E t \in Threads, id \in StartIDs : Call(t, id)
    \/ \E t \in Threads : Lock(t)
    \/ \E t \in Threads : StopLoop(t)
    \/ \E t \in Threads : StartSelected(t)
    \/ \E t \in Threads : Unlock(t)
    \/ Tick

SpecStart == Init /\ [][NextStart]_vars

\* The chronometers on their own, under any calls of their methods.
NextChronometer ==
    \/ \E id \in Indexes : ChronometerStart(id)
    \/ \E id \in Indexes : StopButton(id)
    \/ \E id \in Indexes : ResetButton(id)
    \/ \E id \in Indexes, text \in UserLabels : SetLabel(id, text)
    \/ Tick

SpecChronometer == Init /\ [][NextChronometer]_vars

\* The two conversions on their own: a duration is formatted and the text
\* parsed back, or a text is parsed; one conversion in a run.
HoursLimit == 100       \* the hours field of the text form has two digits
MaxText == 7            \* length of the texts given to parseDuration

SampleHours == {0, 1, 9, 10, 59, 60, HoursLimit - 1}
SampleMinutes == {0, 1, 9, 10, 59}
SampleSeconds == {0, 1, 9, 10, 59}
SampleMillis == {0, 1, 9, 10, 99, 100, 999}
Durations ==
    {h * Hour + m * Minute + sec * Second + ms * Millisecond :
        h \in SampleHours, m \in SampleMinutes, sec \in SampleSeconds, ms \in SampleMillis}

TextChars == {"1", ":", "."}
Texts == UNION {[1 .. n -> TextChars] : n \in 0 .. MaxText}

\* the conversion to make: a duration to format, or a text to parse
Inputs ==
    {[op |-> "duration", d |-> d] : d \in Durations}
    \cup {[op |-> "text", text |-> text] : text \in Texts}

InitDuration == InitBank /\ conv \in Inputs

FormatAndParse ==
    /\ conv.op = "duration"
    /\ conv' = [op |-> "format", d |-> conv.d, text |-> formatDuration(conv.d),
                back |-> parseDuration(formatDuration(conv.d))]
    /\ UNCHANGED <<chronometers, now, files, last, loads, saved, anchor, threadVars>>

Parse ==
    /\ conv.op = "text"
    /\ conv' = [op |-> "parse", text |-> conv.text, back |-> parseDuration(conv.text)]
    /\ UNCHANGED <<chronometers, now, files, last, loads, saved, anchor, threadVars>>

NextDuration == FormatAndParse \/ Parse

SpecDuration == InitDuration /\ [][NextDuration]_vars

\* Every operation of the bank, called from several execution contexts.
NextContexts ==
    \/ \E t \in Threads, id \in Indexes : Call(t, id)
    \/ \E t \in Threads : Lock(t)
    \/ \E t \in Threads : StopLoop(t)
    \/ \E t \in Threads : StartSelected(t)
    \/ \E t \in Threads : Unlock(t)
    \/ \E t \in Threads, op \in DirectOps, id \in Indexes : Enter(t, op, id)
    \/ \E t \in Threads, op \in BankOps : Enter(t, op, 0)
    \/ \E t \in Threads : StopTest(t)
    \/ \E t \in Threads : StopWrite(t)
    \/ \E t \in Threads : ResetZero(t)
    \/ \E t \in Threads : ResetWrite(t)
    \/ \E t \in Threads, text \in UserLabels : LabelWrite(t, text)
    \/ \E t \in Threads, outcome \in WriteOutcomes : SaveBody(t, outcome)
    \/ \E t \in Threads : LoadBody(t)
    \/ \E t \in Threads : RefreshRead(t)
    \/ Tick

SpecContexts == Init /\ [][NextContexts]_vars

----------------------------------------------------------------------------
\* Properties

\* the elapsed time a chronometer reads now
Reading(c) == GetElapsedTime(c, now)

\* this step is a call of the operation op
Step(op) == now' = now /\ last'.op = op

\* C1: whatever StartChronometer calls are made, from several execution
\* contexts and with any ids, at most one chronometer is running, at every step
\* of every call.
C1_AtMostOneRunning == Cardinality(Running(chronometers)) <= 1

\* a call has started its chronometer and stopped another that had run, while
\* another context waits for the mutex
C1_Witness ==
    \E t \in Threads, u \in Threads :
        /\ t # u /\ pc[t] = "unlock" /\ pc[u] = "lock"
        /\ arg[t] \in Indexes /\ chronometers[arg[t]].isRunning
        /\ \E j \in Indexes \ {arg[t]} : chronometers[j].elapsedTime > 0

\* C2: in every reachable state of the bank, under all the operations and the
\* restore of any parseable save file, no two chronometers are running.
C2_NoTwoRunning ==
    \A i \in Indexes, j \in Indexes :
        chronometers[i].isRunning /\ chronometers[j].isRunning => i = j

\* C3 as claimed: after StartChronometer(id) with id in 1..Count, the
\* chronometer whose id field is id runs, and no other.
C3_StartsIdField ==
    (last.op = "StartChronometer" /\ last.id \in 1 .. Count)
        => \A i \in Indexes : chronometers[i].isRunning <=> chronometers[i].id = last.id

\* C3 as amended: after StartChronometer(id) with id in 0..Count-1, the
\* chronometer at position id, whose id field is id + 1, runs, and no other.
C3_StartsPosition ==
    (last.op = "StartChronometer" /\ last.id \in Indexes)
        => /\ chronometers[last.id].id = last.id + 1
           /\ \A i \in Indexes : chronometers[i].isRunning <=> i = last.id

\* StartChronometer(1) found the first chronometer running, stopped it with its
\* time banked, and started the second
C3_Witness ==
    /\ last.op = "StartChronometer" /\ last.id = 1 /\ 0 \in last.ran
    /\ chronometers[1].isRunning /\ chronometers[1].id = 2
    /\ ~chronometers[0].isRunning /\ chronometers[0].elapsedTime > 0

\* C4 as claimed: after StartChronometer(id) with id < 1 or id > Count, no
\* chronometer is running, and no error is reported.
C4_NoneRunsOutsideIds ==
    (last.op = "StartChronometer" /\ (last.id < 1 \/ last.id > Count))
        => Running(chronometers) = {} /\ last.err = "nil"

\* C4 as amended: after StartChronometer(id) with id < 0 or id >= Count, no
\* chronometer is running, and no error is reported.
C4_NoneRunsOutsidePositions ==
    (last.op = "StartChronometer" /\ (last.id < 0 \/ last.id >= Count))
        => Running(chronometers) = {} /\ last.err = "nil"

\* StartChronometer(Count) found a chronometer running and left none running
C4_Witness ==
    /\ last.op = "StartChronometer" /\ last.id = Count /\ last.ran # {}
    /\ Running(chronometers) = {}
    /\ \E i \in last.ran : chronometers[i].elapsedTime > 0

\* what StartChronometer(id) does to the chronometer at position i, apart from
\* the sign of the time it banks
C5_Frame(i, id) ==
    /\ chronometers'[i].displayLabel = chronometers[i].displayLabel
    /\ i # id =>
        /\ ~chronometers[i].isRunning => chronometers'[i] = chronometers[i]
        /\ chronometers[i].isRunning =>
            /\ ~chronometers'[i].isRunning
            /\ chronometers'[i].elapsedTime = Reading(chronometers[i])

\* C5 as claimed: StartChronometer changes no label; a chronometer it does not
\* start stays as it was if it was stopped, and if it was running it is stopped
\* with the time it read at the call, which is > 0 when the clock advanced
\* since it was started.
C5_OthersBankPositive ==
    [][Step("StartChronometer") =>
        \A i \in Indexes :
            /\ C5_Frame(i, last'.id)
            /\ (i # last'.id /\ chronometers[i].isRunning /\ now > anchor[i].at)
                => chronometers'[i].elapsedTime > 0]_vars

\* C5 as amended: the same, the banked time being > 0 when the clock advanced
\* since the chronometer was last started or reset and it read no negative
\* time at that instant.
C5_OthersBank ==
    [][Step("StartChronometer") =>
        \A i \in Indexes :
            /\ C5_Frame(i, last'.id)
            /\ (i # last'.id /\ chronometers[i].isRunning /\ now > anchor[i].at
                    /\ anchor[i].ok)
                => chronometers'[i].elapsedTime > 0]_vars

\* StartChronometer(1) stopped the first chronometer, which had been running
\* while the clock advanced, and started the second
C5_Witness ==
    /\ last.op = "StartChronometer" /\ last.id = 1 /\ last.ran = {0}
    /\ chronometers[1].isRunning
    /\ ~chronometers[0].isRunning /\ chronometers[0].elapsedTime > 0
    /\ chronometers[0].displayLabel = TimerLabel(1)

\* the records of a save file text
Records(text) == text.chronometers
Parses(text) == text.kind = "json" /\ ~UnmarshalFails(text)
BankIDs == {chronometers[i].id : i \in Indexes}
RecordsOf(text, id) == {k \in DOMAIN Records(text) : Records(text)[k].id = id}

\* C6: a LoadFromFile that cannot read its file, or cannot parse it, reports an
\* error and leaves every chronometer as it was.
C6_FailedLoadLeavesBank ==
    [][(Step("LoadFromFile") /\ ~Parses(last'.text))
        => last'.err # "nil" /\ chronometers' = chronometers]_vars

\* a restore failed on the second record of a file whose first record is well
\* formed, and the chronometer that was running still runs
C6_Witness ==
    /\ last.op = "LoadFromFile" /\ last.err = "parse" /\ last.text.kind = "json"
    /\ Len(Records(last.text)) = 2
    /\ ValidString(Records(last.text)[1].displayLabel)
    /\ Records(last.text)[1].id \in BankIDs
    /\ last.ran # {} /\ Running(chronometers) = last.ran
    /\ \E i \in last.ran : Reading(chronometers[i]) > 0

\* C7: a LoadFromFile of the file SaveToFile wrote gives every chronometer the
\* label, the flag and the elapsed time it showed at the save, whatever happened
\* in between; one that was running counts on from the saved time, d later it
\* reads the saved time plus d.
C7_RoundTrip ==
    [][(Step("LoadFromFile") /\ last'.file = JSONFile /\ last'.err = "nil")
        => \A i \in Indexes :
            /\ chronometers'[i].displayLabel = saved.bank[i].displayLabel
            /\ chronometers'[i].isRunning = saved.bank[i].isRunning
            /\ GetElapsedTime(chronometers'[i], now) = saved.bank[i].elapsed
            /\ \A d \in 0 .. MaxNow :
                GetElapsedTime(chronometers'[i], now + d)
                    = saved.bank[i].elapsed + (IF saved.bank[i].isRunning THEN d ELSE 0)]_vars

\* the file was restored after the clock advanced and the other chronometer was
\* started: the one running at the save, with an edited label, runs again
C7_Witness ==
    /\ last.op = "LoadFromFile" /\ last.file = JSONFile /\ last.err = "nil"
    /\ saved.at < now /\ last.ran = {1}
    /\ saved.bank[0].isRunning /\ saved.bank[0].elapsed > 0
    /\ saved.bank[0].displayLabel \in UserLabels
    /\ Running(chronometers) = {0}
    /\ chronometers[0].displayLabel \in UserLabels

\* C8: after a LoadFromFile of a parseable file with at most one record per
\* id, the chronometer whose id is a record's id has the record's label and
\* flag and reads the record's elapsed time; if running, d later it reads the
\* record's elapsed time plus d.
C8_RecordsApplied ==
    [][(Step("LoadFromFile") /\ last'.file = ForeignFile /\ last'.err = "nil"
            /\ \A id \in ForeignIDs : Cardinality(RecordsOf(last'.text, id)) <= 1)
        => \A k \in DOMAIN Records(last'.text), i \in Indexes :
            LET r == Records(last'.text)[k]
                c == chronometers'[i]
            IN  c.id = r.id =>
                    /\ EncodeString(c.displayLabel) = r.displayLabel
                    /\ c.isRunning = r.isRunning
                    /\ \A d \in 0 .. MaxNow :
                        GetElapsedTime(c, now + d)
                            = r.elapsedTime + (IF r.isRunning THEN d ELSE 0)]_vars

\* a file whose first record is for id 2 and second for id 1 was restored, and
\* since then the clock advanced: the second chronometer counts on from its
\* record, the first stays at its record
C8_Witness ==
    /\ last.op = "LoadFromFile" /\ last.file = ForeignFile /\ last.err = "nil"
    /\ Len(Records(last.text)) = 2
    /\ Records(last.text)[1].id = 2 /\ Records(last.text)[2].id = 1
    /\ Records(last.text)[1].isRunning /\ ~Records(last.text)[2].isRunning
    /\ chronometers[1].isRunning
    /\ Reading(chronometers[1]) > Records(last.text)[1].elapsedTime
    /\ Reading(chronometers[0]) = Records(last.text)[2].elapsedTime

\* a save file text without the records whose id is none of the bank
KnownOnly(text) ==
    LET F[k \in 0 .. Len(Records(text))] ==
            IF k = 0 THEN <<>>
            ELSE IF Records(text)[k].id \in BankIDs
                 THEN Append(F[k - 1], Records(text)[k]) ELSE F[k - 1]
    IN  [text EXCEPT !.chronometers = F[Len(Records(text))]]

\* C9: a parseable file is restored without error whatever ids its records
\* carry; the records whose id is none of the bank change nothing; a
\* chronometer without a record ends stopped, with its label and with the
\* elapsed time it read when LoadFromFile was called.
C9_UnmatchedLeftAlone ==
    [][(Step("LoadFromFile") /\ Parses(last'.text))
        => /\ last'.err = "nil"
           /\ chronometers' = LoadFromFileResult(chronometers, KnownOnly(last'.text), now)
           /\ \A i \in Indexes :
                RecordsOf(last'.text, chronometers[i].id) = {} =>
                    /\ ~chronometers'[i].isRunning
                    /\ chronometers'[i].displayLabel = chronometers[i].displayLabel
                    /\ chronometers'[i].elapsedTime = Reading(chronometers[i])]_vars

\* a file with a record for an id that is none of the bank was restored; a
\* chronometer that was running and has no record is stopped at what it read
C9_Witness ==
    /\ last.op = "LoadFromFile" /\ last.err = "nil" /\ last.file = ForeignFile
    /\ RecordsOf(last.text, Count + 1) # {}
    /\ \E i \in last.ran :
        /\ RecordsOf(last.text, chronometers[i].id) = {}
        /\ ~chronometers[i].isRunning /\ chronometers[i].elapsedTime > 0

\* C10: SaveToFile and SaveToCSV, whether they succeed or fail, change no
\* field of any chronometer.
C10_SavesReadOnly ==
    [][(Step("SaveToFile") \/ Step("SaveToCSV")) => chronometers' = chronometers]_vars

\* after a save that succeeded, an export failed while a chronometer was
\* running, and that chronometer has counted on since the save
C10_Witness ==
    /\ last.op = "SaveToCSV" /\ last.err = "io"
    /\ files[JSONFile].kind = "json"
    /\ \E i \in last.ran :
        /\ saved.bank[i].isRunning /\ chronometers[i].isRunning
        /\ Reading(chronometers[i]) > saved.bank[i].elapsed

\* C11: the file SaveToFile writes holds one record per chronometer, in the
\* order of the bank, with the chronometer's id, label and flag, and as elapsed
\* time now - startTime if it runs, its elapsedTime field if it is stopped.
C11_SnapshotRecords ==
    [][(Step("SaveToFile") /\ last'.err = "nil")
        => /\ Parses(files'[JSONFile])
           /\ files'[JSONFile].saveTime = now
           /\ LET rs == Unmarshal(files'[JSONFile]).Chronometers
              IN  /\ Len(rs) = Count
                  /\ \A k \in 1 .. Count :
                        LET c == chronometers[k - 1]
                        IN  /\ rs[k].ID = c.id
                            /\ rs[k].DisplayLabel = c.displayLabel
                            /\ rs[k].IsRunning = c.isRunning
                            /\ rs[k].ElapsedTime =
                                  IF c.isRunning THEN now - c.startTime ELSE c.elapsedTime]_vars

\* a save was made while the first chronometer ran, started after the clock had
\* advanced, and the second was stopped with time banked and an edited label:
\* the first record carries the reading, not the elapsedTime field
C11_Witness ==
    /\ last.op = "SaveToFile" /\ last.err = "nil"
    /\ files[JSONFile].kind = "json" /\ files[JSONFile].saveTime = now
    /\ chronometers[0].isRunning /\ chronometers[0].startTime > 0
    /\ Reading(chronometers[0]) > 0
    /\ Reading(chronometers[0]) # chronometers[0].elapsedTime
    /\ Records(files[JSONFile])[1].elapsedTime = Reading(chronometers[0])
    /\ ~chronometers[1].isRunning /\ chronometers[1].elapsedTime > 0
    /\ chronometers[1].displayLabel \in UserLabels
    /\ Records(files[JSONFile])[2].elapsedTime = chronometers[1].elapsedTime

\* the context is inside an operation that reads or writes the chronometers
Inside(t) ==
    pc[t] \in {"loop", "start"} \cup {"StopWrite", "ResetWrite"} \cup DirectOps \cup BankOps

\* C12: a context that is inside an operation on the bank (exclusive start,
\* stop, reset, label edit, restore, save, refresh read) holds cm.mutex, and no
\* two contexts are inside such operations at the same time.
C12_SerializedByMutex ==
    \A t \in Threads :
        Inside(t) => /\ mutex = t
                     /\ \A u \in Threads \ {t} : ~Inside(u)

\* C13: a stopped chronometer reads its elapsedTime field and a running one
\* now - startTime; when the clock advances the first reads the same and the
\* second reads more by the advance exactly; a Stop and a StartChronometer
\* change no reading at the instant they are made; and a Stop of a chronometer
\* that was stopped and started again (by StartChronometer) adds to the
\* elapsedTime field it had then exactly the time the clock advanced since.
C13_TimingModel ==
    [][/\ \A i \in Indexes :
            Reading(chronometers[i]) =
                IF chronometers[i].isRunning THEN now - chronometers[i].startTime
                ELSE chronometers[i].elapsedTime
       /\ now' # now =>
            \A i \in Indexes :
                /\ chronometers'[i].isRunning = chronometers[i].isRunning
                /\ GetElapsedTime(chronometers'[i], now') =
                      Reading(chronometers[i])
                        + (IF chronometers[i].isRunning THEN now' - now ELSE 0)
       /\ (Step("Stop") \/ Step("StartChronometer")) =>
            \A i \in Indexes :
                GetElapsedTime(chronometers'[i], now) = Reading(chronometers[i])
       /\ (Step("Stop") /\ last.op = "StartChronometer" /\ last.id = last'.id) =>
            /\ ~chronometers'[last.id].isRunning
            /\ chronometers'[last.id].elapsedTime =
                  chronometers[last.id].elapsedTime + (now - anchor[last.id].at)]_vars

\* StartChronometer found the first chronometer running, stopped it with the
\* clock advance banked and started it again; the clock has advanced since and
\* the chronometer reads the banked time plus that advance
C13_Witness ==
    /\ last.op = "StartChronometer" /\ last.id = 0 /\ 0 \in last.ran
    /\ chronometers[0].isRunning
    /\ chronometers[0].elapsedTime > 0
    /\ anchor[0].at > 0 /\ now > anchor[0].at
    /\ Reading(chronometers[0]) = chronometers[0].elapsedTime + (now - anchor[0].at)

\* C14: a Start of a chronometer that is running and a Stop of one that is
\* stopped change no field of any chronometer; a second Start, at the same
\* instant or later, leaves the chronometer as the first left it, so that it
\* reads the same from then on; neither reports an error.
C14_StartStopIdempotent ==
    [][/\ (Step("Start") /\ chronometers[last'.id].isRunning) => chronometers' = chronometers
       /\ (Step("Stop") /\ ~chronometers[last'.id].isRunning) => chronometers' = chronometers
       /\ (Step("Start") /\ last.op = "Start" /\ last.id = last'.id) =>
            /\ chronometers' = chronometers
            /\ \A d \in 0 .. MaxNow :
                    GetElapsedTime(chronometers'[last.id], now + d)
                        = GetElapsedTime(chronometers[last.id], now + d)
       /\ (Step("Start") \/ Step("Stop")) => last'.err = "nil"]_vars

\* Start was called twice on the first chronometer, the clock having advanced
\* in between: it runs from the first call, not from the second
C14_Witness ==
    /\ last.op = "Start" /\ last.id = 0 /\ 0 \in last.ran
    /\ chronometers[0].isRunning /\ Reading(chronometers[0]) > 0
    /\ anchor[0].at < now
    /\ chronometers[0].startTime # now - chronometers[0].elapsedTime

\* C15: Reset changes neither the running flag nor any other chronometer, and
\* the chronometer reads zero at that instant. Reset while stopped, it stays at
\* zero; reset while running, it reads from then on the time the clock advanced
\* since the reset, also after StartChronometer has stopped and started it
\* again.
C15_ResetZeroes ==
    [][/\ Step("Reset") =>
            LET i == last'.id
            IN  /\ chronometers'[i].isRunning = chronometers[i].isRunning
                /\ chronometers'[i].displayLabel = chronometers[i].displayLabel
                /\ \A j \in Indexes \ {i} : chronometers'[j] = chronometers[j]
                /\ \A d \in 0 .. MaxNow :
                        GetElapsedTime(chronometers'[i], now + d)
                            = IF chronometers[i].isRunning THEN d ELSE 0
       /\ last.op = "Reset" =>
            /\ chronometers[last.id].isRunning = (last.id \in last.ran)
            /\ Reading(chronometers[last.id])
                  = IF last.id \in last.ran THEN now - anchor[last.id].at ELSE 0
       /\ (Step("StartChronometer") /\ last.op = "Reset" /\ last.id = last'.id
                /\ last.id \in last.ran) =>
            \A d \in 0 .. MaxNow :
                GetElapsedTime(chronometers'[last.id], now + d)
                    = (now - anchor[last.id].at) + d]_vars

\* the first chronometer was reset while it ran, after the clock had advanced,
\* and the clock has advanced since: it reads the second advance only
C15_Witness ==
    /\ last.op = "Reset" /\ last.id = 0 /\ 0 \in last.ran
    /\ chronometers[0].isRunning /\ chronometers[0].elapsedTime = 0
    /\ anchor[0].at > 0 /\ now > anchor[0].at
    /\ chronometers[0].startTime = anchor[0].at
    /\ Reading(chronometers[0]) = now - anchor[0].at

\* the number a field of digits shows
FieldValue(s, from, to) == Natural(SubSeq(s, from, to))

\* how many times a character occurs in a text
Occurrences(s, ch) == Cardinality({k \in DOMAIN s : s[k] = ch})

\* the text has two ':' and, after the second, one '.'
SplitsInFields(s) ==
    /\ Occurrences(s, ":") = 2
    /\ LET k == CHOOSE k \in DOMAIN s : s[k] = ":" /\ \A j \in (k + 1) .. Len(s) : s[j] # ":"
       IN  Occurrences(SubSeq(s, k + 1, Len(s)), ".") = 1

\* C16: for a duration d >= 0 of whole milliseconds and fewer than 100 hours,
\* formatDuration gives HH:MM:SS.mmm with the hours, the minutes mod 60, the
\* seconds mod 60 and the milliseconds mod 1000 of d, and parseDuration of that
\* text gives d and no error; parseDuration reports an error for every text
\* that has not two ':' and, in the last field, one '.'.
C16_FormatParseRoundTrip ==
    /\ conv.op = "format" =>
        /\ conv.back = [err |-> "nil", d |-> conv.d]
        /\ Len(conv.text) = 12
        /\ conv.text[3] = ":" /\ conv.text[6] = ":" /\ conv.text[9] = "."
        /\ \A k \in (1 .. 12) \ {3, 6, 9} : conv.text[k] \in Digits
        /\ FieldValue(conv.text, 1, 2) = conv.d \div 3600000
        /\ FieldValue(conv.text, 4, 5) = (conv.d \div 60000) % 60
        /\ FieldValue(conv.text, 7, 8) = (conv.d \div 1000) % 60
        /\ FieldValue(conv.text, 10, 12) = conv.d % 1000
    /\ (conv.op = "parse" /\ ~SplitsInFields(conv.text)) => conv.back.err # "nil"

\* 99 h 59 min 59.999 s was formatted and parsed back
C16_Witness ==
    /\ conv.op = "format"
    /\ conv.d = (HoursLimit - 1) * Hour + 59 * Minute + 59 * Second + 999 * Millisecond
    /\ conv.text = <<"9", "9", ":", "5", "9", ":", "5", "9", ".", "9", "9", "9">>
    /\ conv.back.err = "nil" /\ conv.back.d = conv.d

\* C17: StartChronometer called for a chronometer that is running leaves it
\* running, with the reading it had at the call and the same readings from then
\* on, and leaves every other chronometer stopped and as it was.
C17_RestartKeepsBank ==
    [][(Step("StartChronometer") /\ last'.id \in Indexes
            /\ chronometers[last'.id].isRunning)
        => LET x == last'.id
           IN  /\ chronometers'[x].isRunning
               /\ chronometers'[x].displayLabel = chronometers[x].displayLabel
               /\ \A d \in 0 .. MaxNow :
                    GetElapsedTime(chronometers'[x], now + d)
                        = GetElapsedTime(chronometers[x], now + d)
               /\ \A j \in Indexes \ {x} :
                    ~chronometers'[j].isRunning /\ chronometers'[j] = chronometers[j]]_vars

\* the last record of the file for this id, and the first one with isRunning
LastRecord(text, id) ==
    Records(text)[CHOOSE k \in RecordsOf(text, id) : \A j \in RecordsOf(text, id) : j <= k]
RunningRecords(text, id) == {k \in RecordsOf(text, id) : Records(text)[k].isRunning}
FirstRunningRecord(text, id) ==
    Records(text)[CHOOSE k \in RunningRecords(text, id) :
                    \A j \in RunningRecords(text, id) : k <= j]

\* C18 as claimed: after a LoadFromFile of a parseable file with several
\* records for one id, the chronometer with that id has the label and the flag
\* of the last of them and reads the elapsed time of the last of them.
C18_LastRecordWins ==
    [][(Step("LoadFromFile") /\ Parses(last'.text))
        => \A i \in Indexes :
            LET id == chronometers[i].id
            IN  Cardinality(RecordsOf(last'.text, id)) >= 2 =>
                    LET r == LastRecord(last'.text, id)
                    IN  /\ EncodeString(chronometers'[i].displayLabel) = r.displayLabel
                        /\ chronometers'[i].isRunning = r.isRunning
                        /\ GetElapsedTime(chronometers'[i], now) = r.elapsedTime]_vars

\* C18 as amended: the chronometer has the label of the last of the records; it
\* runs if and only if one of them has isRunning; it reads the elapsed time of
\* the first of them that has isRunning, or of the last of them if none has.
C18_FirstRunningRecordWins ==
    [][(Step("LoadFromFile") /\ Parses(last'.text))
        => \A i \in Indexes :
            LET id == chronometers[i].id
            IN  Cardinality(RecordsOf(last'.text, id)) >= 2 =>
                    LET r == LastRecord(last'.text, id)
                    IN  /\ EncodeString(chronometers'[i].displayLabel) = r.displayLabel
                        /\ chronometers'[i].elapsedTime = r.elapsedTime
                        /\ chronometers'[i].isRunning = (RunningRecords(last'.text, id) # {})
                        /\ GetElapsedTime(chronometers'[i], now) =
                              IF RunningRecords(last'.text, id) # {}
                              THEN FirstRunningRecord(last'.text, id).elapsedTime
                              ELSE r.elapsedTime]_vars

\* a file with two records for id 1 was restored, the first with isRunning and
\* one elapsed time, the second without and with another: the chronometer has
\* the second label, runs, and reads the first elapsed time
C18_Witness ==
    /\ last.op = "LoadFromFile" /\ last.err = "nil" /\ last.file = ForeignFile
    /\ Len(Records(last.text)) = 2
    /\ Records(last.text)[1].id = 1 /\ Records(last.text)[2].id = 1
    /\ Records(last.text)[1].isRunning /\ ~Records(last.text)[2].isRunning
    /\ Records(last.text)[1].elapsedTime # Records(last.text)[2].elapsedTime
    /\ chronometers[0].isRunning
    /\ EncodeString(chronometers[0].displayLabel) = Records(last.text)[2].displayLabel
    /\ chronometers[0].startTime = now - Records(last.text)[1].elapsedTime
    /\ Reading(chronometers[0]) = Records(last.text)[1].elapsedTime

\* the records of a save file that have isRunning
RunningInFile(text) == {k \in DOMAIN Records(text) : Records(text)[k].isRunning}

\* C19: when the only files restored are those SaveToFile wrote from this
\* bank, then under StartChronometer, Stop, Reset, label edits, saves and
\* restores at most one chronometer is running in every state, and the save file
\* holds at most one record with isRunning.
C19_OwnFilesKeepOneRunning ==
    /\ Cardinality(Running(chronometers)) <= 1
    /\ files[JSONFile].kind = "json" => Cardinality(RunningInFile(files[JSONFile])) <= 1

\* the save file, written while the second chronometer ran, was restored while
\* the first ran: the second runs again and the first is stopped with its time
C19_Witness ==
    /\ last.op = "LoadFromFile" /\ last.file = JSONFile /\ last.err = "nil"
    /\ RunningInFile(files[JSONFile]) = {2}
    /\ last.ran = {0}
    /\ Running(chronometers) = {1}
    /\ Reading(chronometers[0]) = Records(files[JSONFile])[1].elapsedTime

====
